---- MODULE Spec2Model ----
(***************************************************************************)
(* Localflare binding-sharing sidecar: the CLI's companion-manifest setup  *)
(* (primary and attach commands) and the sidecar worker's catch-all proxy  *)
(* handler with its traffic and log capture stores.                        *)
(*                                                                         *)
(* The CLI entry points and the worker's request handlers are translated   *)
(* from the sources.  shadow-config.js (setupLocalflareDir) and            *)
(* utils/request-store.js (requestStore, logStore) are imported by those   *)
(* sources but are not part of the source tree at hand; their operators    *)
(* follow sections 3, 4.2, 4.4 and 4.5 of the specification.               *)
(***************************************************************************)
EXTENDS Integers, Sequences, FiniteSets, TLC

VARIABLES
    source,          \* the user's ResourceManifest (immutable after load)
    companion,       \* the CompanionManifest written by the CLI, or NoManifest
    flow,            \* which CLI command has run its setup: none, primary, attach
    userWorker,      \* whether c.env.USER_WORKER is bound in the sidecar
    requestStore,    \* Traffic Capture Store: sequence of CapturedExchange
    logStore,        \* Log Capture Store: sequence of LogEntry
    nextRequestId,   \* source of correlation ids
    now,             \* Date.now()
    pc,              \* per inbound request: position of its handler
    requestId,       \* per request: const requestId
    startTime,       \* per request: const startTime
    userResponse,    \* per request: const response (the awaited fetch result)
    returned,        \* per request: what the handler returned to the caller
    trace,           \* history: per request, the calls its handler made, in order
    issued,          \* history: every correlation id inserted, in insertion order
    logged,          \* history: every LogEntry appended, in insertion order
    firstCompletion, \* history: per correlation id, what its first completion wrote
    conflicting,     \* history: the id whose completion was last called again with other values
    inbound,         \* per request: its method and path
    cmd,             \* the CLI command invoked: primary or attach
    options,         \* the parsed CLI options
    rawArgs,         \* process.argv.slice(2)
    host,            \* what the CLI finds on the machine: config files, TTY
    sup,             \* the supervisor process: idle, supervising, exited
    exitCode,        \* the code passed to process.exit
    child,           \* the spawned wrangler process: none, alive, closed
    childExit,       \* the code of the child's close event
    spawned,         \* history: the argument list of every spawn
    started,         \* let started
    tui,             \* the terminal renderer: none, mounted, unmounted
    tuiStarted,      \* number of tui.setStarted(true) calls
    banners,         \* number of times the running banner was printed
    opened,          \* history: every URL passed to open()
    kills,           \* history: every signal sent with wranglerProcess.kill
    stopRequests,    \* history: number of stop triggers delivered
    crashReported,   \* whether the exit diagnostic and tip were printed
    lastEvent,       \* history: the event handled last
    lastSink,        \* where the chunk handled last was written
    doRequest,       \* the request a Durable Object route is called with
    doResponse,      \* what that route answered
    anRequest,       \* the request an analytics route is called with
    anResponse,      \* what that route answered
    outbound,        \* history: the credentials of every outbound fetch
    pagination,      \* usePagination's state
    entries,         \* useQueryHistory's state
    stored,          \* localStorage's value under the history key
    nextEntryId,     \* stands for crypto.randomUUID(): ids never repeat
    clock,           \* Date.now() in the browser
    historyOp,       \* history: the history operation performed last
    tile,            \* TileContainer's data, error and isLoading
    filterValues,    \* the version of the filter values the tile is given
    fetches          \* the fetchData calls made, in order of start

cliVars == <<source, companion, flow>>
workerVars == <<userWorker, requestStore, logStore, nextRequestId, now, pc,
                requestId, startTime, userResponse, returned,
                trace, issued, logged, firstCompletion, conflicting, inbound>>
supVars == <<cmd, options, rawArgs, host, sup, exitCode, child, childExit,
             spawned, started, tui, tuiStarted, banners, opened, kills,
             stopRequests, crashReported, lastEvent, lastSink>>
doVars == <<doRequest, doResponse>>
anVars == <<anRequest, anResponse, outbound>>
historyVars == <<entries, stored, nextEntryId, clock, historyOp>>
tileVars == <<tile, filterValues, fetches>>
uiVars == <<pagination, entries, stored, nextEntryId, clock, historyOp,
            tile, filterValues, fetches>>
extVars == <<doRequest, doResponse, anRequest, anResponse, outbound,
             pagination, entries, stored, nextEntryId, clock, historyOp,
             tile, filterValues, fetches>>
vars == <<source, companion, flow, userWorker, requestStore, logStore,
          nextRequestId, now, pc, requestId, startTime, userResponse, returned,
          trace, issued, logged, firstCompletion, conflicting, inbound,
          cmd, options, rawArgs, host, sup, exitCode, child, childExit,
          spawned, started, tui, tuiStarted, banners, opened, kills,
          stopRequests, crashReported, lastEvent, lastSink,
          doRequest, doResponse, anRequest, anResponse, outbound,
          pagination, entries, stored, nextEntryId, clock, historyOp,
          tile, filterValues, fetches>>

-----------------------------------------------------------------------------
(* Bounds of the model *)

MaxBindings == 2
NumRequests == 3
MaxExchanges == 2
MaxLogEntries == 2
MaxTime == 2
MaxArgs == 3
MaxStops == 2
MaxRows == 6
MaxPageSize == 3
MaxHistory == 2
MaxAdds == 4
MaxFetches == 3

-----------------------------------------------------------------------------
(* Data model: BindingDeclaration, ResourceManifest, CompanionManifest *)

BindingKinds == {"storage-db", "kv", "object-bucket", "stateful-object-class",
                 "queue-producer", "queue-consumer", "variable"}

BindingNames == {"DB", "CACHE"}

ResourceIdentifiers == {"abc-123", "def-456"}

BindingDeclarations ==
    [kind : BindingKinds, bindingName : BindingNames,
     resourceIdentifier : ResourceIdentifiers]

\* bindingName is unique within one kind namespace of a manifest
UniqueBindingNames(bindings) ==
    \A i, j \in DOMAIN bindings :
        (bindings[i].kind = bindings[j].kind
            /\ bindings[i].bindingName = bindings[j].bindingName) => i = j

ResourceManifests ==
    {[name |-> "user-worker", bindings |-> b] :
        b \in {s \in UNION {[1..n -> BindingDeclarations] : n \in 0..MaxBindings} :
                  UniqueBindingNames(s)}}

NoManifest == [name |-> "", bindings |-> <<>>]

\* the service-reference binding through which the sidecar reaches the user process
ServiceReference(src) ==
    [kind |-> "service-reference", bindingName |-> "USER_WORKER",
     resourceIdentifier |-> src.name]

NonVariable(b) == b.kind # "variable"

\* a mutation that regenerates the resource identifiers instead of copying them
synthesizeFreshIds(src, isPrimary) ==
    [name |-> "localflare-api",
     bindings |->
        [i \in DOMAIN SelectSeq(src.bindings, NonVariable) |->
            [SelectSeq(src.bindings, NonVariable)[i]
                EXCEPT !.resourceIdentifier = "generated"]]
        \o (IF isPrimary THEN <<ServiceReference(src)>> ELSE <<>>)]

\* a mutation that copies every declaration, variables included
synthesizeKeepVariables(src, isPrimary) ==
    [name |-> "localflare-api",
     bindings |-> src.bindings
        \o (IF isPrimary THEN <<ServiceReference(src)>> ELSE <<>>)]

\* synthesize(source, isPrimary) -> CompanionManifest
synthesize(src, isPrimary) ==
    [name |-> "localflare-api",
     bindings |-> SelectSeq(src.bindings, NonVariable)
        \o (IF isPrimary THEN <<ServiceReference(src)>> ELSE <<>>)]

\* setupLocalflareDir(resolvedConfig, isPrimary): synthesize and write
setupLocalflareDir(src, isPrimary) == synthesize(src, isPrimary)

HasServiceReference(m) ==
    \E j \in DOMAIN m.bindings : m.bindings[j].kind = "service-reference"

-----------------------------------------------------------------------------
(* CLI commands: the setup step of each entry point *)

\* a mutation in which the attach command asks for the primary manifest
AttachCommandAsPrimary ==
    /\ flow = "none"
    /\ companion' = setupLocalflareDir(source, TRUE)
    /\ flow' = "attach"
    /\ UNCHANGED <<source>>
    /\ UNCHANGED workerVars /\ UNCHANGED supVars /\ UNCHANGED extVars

\* localflare [configPath]: setupLocalflareDir(resolvedConfig, true)
PrimaryCommand ==
    /\ flow = "none"
    /\ companion' = setupLocalflareDir(source, TRUE)
    /\ flow' = "primary"
    /\ UNCHANGED <<source>>
    /\ UNCHANGED workerVars /\ UNCHANGED supVars /\ UNCHANGED extVars

\* localflare attach [configPath]: setupLocalflareDir(resolvedConfig, false)
AttachCommand ==
    /\ flow = "none"
    /\ companion' = setupLocalflareDir(source, FALSE)
    /\ flow' = "attach"
    /\ UNCHANGED <<source>>
    /\ UNCHANGED workerVars /\ UNCHANGED supVars /\ UNCHANGED extVars

-----------------------------------------------------------------------------
(* Sidecar worker: stores and handlers *)

Requests == 1..NumRequests

NoId == 0
NoTime == -1
NoStatus == 0
NoResponse == [status |-> NoStatus, body |-> "none"]

\* what the user process may answer
UserResponses == {[status |-> 200, body |-> "user-ok"],
                  [status |-> 500, body |-> "user-error"]}

\* c.json({error: 'Worker error', ...}, 500)
WorkerErrorResponse == [status |-> 500, body |-> "Worker error"]

\* c.json({error: 'Not found', ...}, 404)
NotBoundResponse == [status |-> 404, body |-> "Not found"]

InitWorker ==
    /\ requestStore = <<>>
    /\ logStore = <<>>
    /\ nextRequestId = 1
    /\ now = 0
    /\ pc = [r \in Requests |-> "idle"]
    /\ requestId = [r \in Requests |-> NoId]
    /\ startTime = [r \in Requests |-> NoTime]
    /\ userResponse = [r \in Requests |-> NoResponse]
    /\ returned = [r \in Requests |-> NoResponse]
    /\ trace = [r \in Requests |-> <<>>]
    /\ issued = <<>>
    /\ logged = <<>>
    /\ firstCompletion = [i \in 1..NumRequests |->
                            [status |-> NoStatus, completedAt |-> NoTime]]
    /\ conflicting = NoId

\* a mutation that refuses the new entry when the store is full
InsertDropNewest(store, capacity, entry) ==
    IF Len(store) >= capacity THEN store ELSE Append(store, entry)

\* admission at the head instead of the tail
InsertAtFront(store, capacity, entry) ==
    IF Len(store) >= capacity
    THEN <<entry>> \o SubSeq(store, 1, Len(store) - 1)
    ELSE <<entry>> \o store

\* BoundedOrderedStore insert: when full, evict the oldest, then admit
Insert(store, capacity, entry) ==
    IF Len(store) >= capacity
    THEN Append(Tail(store), entry)
    ELSE Append(store, entry)

\* a CapturedExchange as created at proxy-start: only the "in" fields populated
NewExchange(id, t) ==
    [id |-> id, method |-> "GET", path |-> "/orders", startedAt |-> t,
     status |-> NoStatus, completedAt |-> NoTime, durationMs |-> NoTime]

\* a mutation that admits the new exchange at the head of the store
startRequestAtFront(store, id, t) ==
    InsertAtFront(store, MaxExchanges, NewExchange(id, t))

\* requestStore.startRequest(request): record the exchange
startRequest(store, id, t) == Insert(store, MaxExchanges, NewExchange(id, t))

\* the correlation id startRequest returns: never one it returned before
newCorrelationId == nextRequestId

\* a mutation that admits a completed exchange again when its id is no longer
\* stored
completeRequestReadmits(store, id, response, startedAt, t) ==
    IF \E i \in DOMAIN store : store[i].id = id
    THEN [i \in DOMAIN store |->
             IF store[i].id = id /\ store[i].completedAt = NoTime
             THEN [store[i] EXCEPT !.status = response.status,
                                   !.completedAt = t,
                                   !.durationMs = t - startedAt]
             ELSE store[i]]
    ELSE Insert(store, MaxExchanges,
                [NewExchange(id, startedAt) EXCEPT !.status = response.status,
                                                   !.completedAt = t,
                                                   !.durationMs = t - startedAt])

\* a mutation that overwrites an already completed exchange
completeRequestOverwrite(store, id, response, startedAt, t) ==
    [i \in DOMAIN store |->
        IF store[i].id = id
        THEN [store[i] EXCEPT !.status = response.status,
                              !.completedAt = t,
                              !.durationMs = t - startedAt]
        ELSE store[i]]

\* requestStore.completeRequest(requestId, response, startTime): fill the "out"
\* fields of the exchange with that id, once; an unknown or already completed id
\* is left alone
completeRequest(store, id, response, startedAt, t) ==
    [i \in DOMAIN store |->
        IF store[i].id = id /\ store[i].completedAt = NoTime
        THEN [store[i] EXCEPT !.status = response.status,
                              !.completedAt = t,
                              !.durationMs = t - startedAt]
        ELSE store[i]]

\* requestStore.getExchanges(): read-only view in store order
getExchanges == requestStore

\* a LogEntry
LogEntry(level, message, context, category, t) ==
    [level |-> level, message |-> message, context |-> context,
     category |-> category, timestamp |-> t]

\* logStore.log(level, message, context?, category?)
log(store, entry) == Insert(store, MaxLogEntries, entry)

NoCompletion == [status |-> NoStatus, completedAt |-> NoTime]

\* history: remember what the first completion of an id wrote
RecordCompletion(id, response, t) ==
    IF id \in DOMAIN firstCompletion /\ firstCompletion[id] = NoCompletion
    THEN [firstCompletion EXCEPT ![id] = [status |-> response.status,
                                          completedAt |-> t]]
    ELSE firstCompletion

\* const API_PREFIX = '/__localflare'; a path is its sequence of segments
API_PREFIX == "__localflare"

HasReservedPrefix(req) == Len(req.path) >= 1 /\ req.path[1] = API_PREFIX

\* app.get(`${API_PREFIX}/health`, ...): the route registered in the worker itself
MatchesHealthRoute(req) ==
    req.method = "GET" /\ req.path = <<API_PREFIX, "health">>

\* a mutation in which the catch-all is reached by every path outside the prefix
\* and by no path under it
ReachesCatchAllOutsidePrefix(req) == ~HasReservedPrefix(req)

\* app.all('*') is registered last: it handles whatever no earlier route matched
ReachesCatchAll(req) == ~MatchesHealthRoute(req)

\* the inbound requests considered: an application route, the health route, and
\* a request under the prefix that no route matches
Inbounds == {[method |-> "GET", path |-> <<"orders">>],
             [method |-> "GET", path |-> <<API_PREFIX, "health">>],
             [method |-> "POST", path |-> <<API_PREFIX, "health">>]}

AppRequest == [method |-> "GET", path |-> <<"orders">>]

\* c.json({status: 'ok', ...})
HealthResponse == [status |-> 200, body |-> "Localflare API is running"]

\* requests are numbered in order of arrival
Arrives(r) == pc[r] = "idle" /\ (IF r = 1 THEN TRUE ELSE pc[r - 1] # "idle")

\* the time that passes while a forward is awaited: the clock is read again
\* when the awaited forward settles
Elapsed == {d \in 0..1 : now + d <= MaxTime}

\* a mutation that starts forwarding without recording the exchange
ProxyStartNoCapture(r) ==
    /\ Arrives(r)
    /\ ReachesCatchAll(inbound[r])
    /\ userWorker
    /\ pc' = [pc EXCEPT ![r] = "forwarding"]
    /\ trace' = [trace EXCEPT ![r] = <<[op |-> "forward", id |-> NoId]>>]
    /\ UNCHANGED <<requestStore, nextRequestId, requestId, startTime, issued>>
    /\ UNCHANGED <<logStore, now, userResponse, returned, logged,
                   firstCompletion>>
    /\ UNCHANGED cliVars /\ UNCHANGED supVars /\ UNCHANGED extVars
    /\ UNCHANGED <<userWorker, conflicting, inbound>>

\* app.all('*'), USER_WORKER bound: startRequest, Date.now(), then the forward
\* is issued and the handler is suspended on it
ProxyStart(r) ==
    /\ Arrives(r)
    /\ ReachesCatchAll(inbound[r])
    /\ userWorker
    /\ requestStore' = startRequest(requestStore, newCorrelationId, now)
    /\ issued' = Append(issued, newCorrelationId)
    /\ requestId' = [requestId EXCEPT ![r] = newCorrelationId]
    /\ nextRequestId' = nextRequestId + 1
    /\ startTime' = [startTime EXCEPT ![r] = now]
    /\ pc' = [pc EXCEPT ![r] = "forwarding"]
    /\ trace' = [trace EXCEPT ![r] =
                    <<[op |-> "startExchange", id |-> newCorrelationId],
                      [op |-> "forward", id |-> NoId]>>]
    /\ UNCHANGED <<logStore, now, userResponse, returned, logged,
                   firstCompletion>>
    /\ UNCHANGED cliVars /\ UNCHANGED supVars /\ UNCHANGED extVars
    /\ UNCHANGED <<userWorker, conflicting, inbound>>

\* a mutation that records the exchange before looking for the binding
ProxyNotBoundCaptures(r) ==
    /\ Arrives(r)
    /\ ReachesCatchAll(inbound[r])
    /\ ~userWorker
    /\ requestStore' = startRequest(requestStore, newCorrelationId, now)
    /\ issued' = Append(issued, newCorrelationId)
    /\ requestId' = [requestId EXCEPT ![r] = newCorrelationId]
    /\ nextRequestId' = nextRequestId + 1
    /\ returned' = [returned EXCEPT ![r] = NotBoundResponse]
    /\ pc' = [pc EXCEPT ![r] = "done"]
    /\ UNCHANGED <<logStore, now, startTime, userResponse, trace, logged,
                   firstCompletion>>
    /\ UNCHANGED cliVars /\ UNCHANGED supVars /\ UNCHANGED extVars
    /\ UNCHANGED <<userWorker, conflicting, inbound>>

\* app.all('*'), no USER_WORKER: 404
ProxyNotBound(r) ==
    /\ Arrives(r)
    /\ ReachesCatchAll(inbound[r])
    /\ ~userWorker
    /\ returned' = [returned EXCEPT ![r] = NotBoundResponse]
    /\ pc' = [pc EXCEPT ![r] = "done"]
    /\ UNCHANGED <<requestStore, logStore, nextRequestId, now, requestId,
                   startTime, userResponse, trace, issued, logged,
                   firstCompletion>>
    /\ UNCHANGED cliVars /\ UNCHANGED supVars /\ UNCHANGED extVars
    /\ UNCHANGED <<userWorker, conflicting, inbound>>

\* app.get(`${API_PREFIX}/health`): log an info entry and answer
HealthCheck(r) ==
    /\ Arrives(r)
    /\ MatchesHealthRoute(inbound[r])
    /\ logStore' = log(logStore, LogEntry("info", "Health check", NoId,
                                          "system", now))
    /\ logged' = Append(logged, LogEntry("info", "Health check", NoId,
                                         "system", now))
    /\ returned' = [returned EXCEPT ![r] = HealthResponse]
    /\ pc' = [pc EXCEPT ![r] = "done"]
    /\ UNCHANGED <<requestStore, nextRequestId, now, requestId, startTime,
                   userResponse, trace, issued, firstCompletion>>
    /\ UNCHANGED cliVars /\ UNCHANGED supVars /\ UNCHANGED extVars
    /\ UNCHANGED <<userWorker, conflicting, inbound>>

\* a mutation that completes the most recently issued id instead of its own
ForwardResolveWrongId(r) ==
    /\ pc[r] = "forwarding"
    /\ \E response \in UserResponses, d \in Elapsed :
        /\ now' = now + d
        /\ userResponse' = [userResponse EXCEPT ![r] = response]
        /\ requestStore' = completeRequest(requestStore, nextRequestId - 1,
                                           response, startTime[r], now')
        /\ firstCompletion' = RecordCompletion(nextRequestId - 1, response, now')
        /\ trace' = [trace EXCEPT ![r] =
                        Append(@, [op |-> "completeExchange",
                                   id |-> nextRequestId - 1])]
    /\ pc' = [pc EXCEPT ![r] = "completing"]
    /\ UNCHANGED <<logStore, nextRequestId, requestId, startTime, returned,
                   issued, logged>>
    /\ UNCHANGED cliVars /\ UNCHANGED supVars /\ UNCHANGED extVars
    /\ UNCHANGED <<userWorker, conflicting, inbound>>

\* the awaited userWorker.fetch resolves: completeRequest(requestId, response,
\* startTime) is called and awaited
ForwardResolve(r) ==
    /\ pc[r] = "forwarding"
    /\ \E response \in UserResponses, d \in Elapsed :
        /\ now' = now + d
        /\ userResponse' = [userResponse EXCEPT ![r] = response]
        /\ requestStore' = completeRequest(requestStore, requestId[r], response,
                                           startTime[r], now')
        /\ firstCompletion' = RecordCompletion(requestId[r], response, now')
        /\ trace' = [trace EXCEPT ![r] =
                        Append(@, [op |-> "completeExchange", id |-> requestId[r]])]
    /\ pc' = [pc EXCEPT ![r] = "completing"]
    /\ UNCHANGED <<logStore, nextRequestId, requestId, startTime, returned,
                   issued, logged>>
    /\ UNCHANGED cliVars /\ UNCHANGED supVars /\ UNCHANGED extVars
    /\ UNCHANGED <<userWorker, conflicting, inbound>>

\* return response
ProxyReturn(r) ==
    /\ pc[r] = "completing"
    /\ returned' = [returned EXCEPT ![r] = userResponse[r]]
    /\ trace' = [trace EXCEPT ![r] = Append(@, [op |-> "return", id |-> NoId])]
    /\ pc' = [pc EXCEPT ![r] = "done"]
    /\ UNCHANGED <<requestStore, logStore, nextRequestId, now, requestId,
                   startTime, userResponse, issued, logged,
                   firstCompletion>>
    /\ UNCHANGED cliVars /\ UNCHANGED supVars /\ UNCHANGED extVars
    /\ UNCHANGED <<userWorker, conflicting, inbound>>

\* what escapes a handler that re-throws
Rethrown == [status |-> NoStatus, body |-> "rethrown"]

\* a mutation whose catch block logs and then re-throws
ForwardThrowRethrow(r) ==
    /\ pc[r] = "forwarding"
    /\ \E d \in Elapsed :
        /\ now' = now + d
        /\ logStore' = log(logStore, LogEntry("error", "Request failed",
                                              requestId[r], "request", now'))
        /\ logged' = Append(logged, LogEntry("error", "Request failed",
                                             requestId[r], "request", now'))
    /\ returned' = [returned EXCEPT ![r] = Rethrown]
    /\ trace' = [trace EXCEPT ![r] = Append(@, [op |-> "log", id |-> requestId[r]])]
    /\ pc' = [pc EXCEPT ![r] = "done"]
    /\ UNCHANGED <<requestStore, nextRequestId, requestId, startTime,
                   userResponse, issued, firstCompletion>>
    /\ UNCHANGED cliVars /\ UNCHANGED supVars /\ UNCHANGED extVars
    /\ UNCHANGED <<userWorker, conflicting, inbound>>

\* the awaited userWorker.fetch throws: the catch block logs the error and
\* returns the 500
ForwardThrow(r) ==
    /\ pc[r] = "forwarding"
    /\ \E d \in Elapsed :
        /\ now' = now + d
        /\ logStore' = log(logStore, LogEntry("error", "Request failed",
                                              requestId[r], "request", now'))
        /\ logged' = Append(logged, LogEntry("error", "Request failed",
                                             requestId[r], "request", now'))
    /\ returned' = [returned EXCEPT ![r] = WorkerErrorResponse]
    /\ trace' = [trace EXCEPT ![r] = Append(@, [op |-> "log", id |-> requestId[r]])]
    /\ pc' = [pc EXCEPT ![r] = "done"]
    /\ UNCHANGED <<requestStore, nextRequestId, requestId, startTime,
                   userResponse, issued, firstCompletion>>
    /\ UNCHANGED cliVars /\ UNCHANGED supVars /\ UNCHANGED extVars
    /\ UNCHANGED <<userWorker, conflicting, inbound>>

\* a second completeExchange call for a correlation id that was completed before
CompleteAgain ==
    /\ \E id \in 1..NumRequests, response \in UserResponses :
        /\ firstCompletion[id] # NoCompletion
        /\ requestStore' = completeRequest(requestStore, id, response,
                                           firstCompletion[id].completedAt, now)
        /\ conflicting' =
              IF firstCompletion[id] # [status |-> response.status,
                                        completedAt |-> now]
              THEN id
              ELSE conflicting
    /\ UNCHANGED <<logStore, nextRequestId, now, pc, requestId, startTime,
                   userResponse, returned, trace, issued, logged,
                   firstCompletion>>
    /\ UNCHANGED cliVars /\ UNCHANGED supVars /\ UNCHANGED extVars
    /\ UNCHANGED <<userWorker, inbound>>

-----------------------------------------------------------------------------
(* The command-line supervisor *)

\* the close event's code when the child was ended by a signal: null
NullCode == -1
\* exitCode before process.exit has been called
NoExit == -2
\* the codes a close event can carry
ChildExitCodes == {0, 1, 2, NullCode}

\* the [configPath] argument left out
NoConfigPath == ""
\* --persist-to left out
NoPersistTo == ""
ConfigPaths == {NoConfigPath, "app/wrangler.toml"}
PersistTos == {NoPersistTo, "data", "/var/state"}
Ports == {8787, 8788}

\* node:path resolve, against the working directory /cwd
resolve(path) ==
    CASE path = "app/wrangler.toml" -> "/cwd/app/wrangler.toml"
      [] path = "data" -> "/cwd/data"
      [] OTHER -> path

\* node:path dirname
dirname(path) ==
    CASE path = "/cwd/app/wrangler.toml" -> "/cwd/app"
      [] path = "/cwd/wrangler.toml" -> "/cwd"
      [] OTHER -> "/"

\* join(dir, '.wrangler', 'state')
joinWranglerState(dir) ==
    CASE dir = "/cwd/app" -> "/cwd/app/.wrangler/state"
      [] dir = "/cwd" -> "/cwd/.wrangler/state"
      [] OTHER -> "/.wrangler/state"

\* String(port)
String(port) ==
    CASE port = 8787 -> "8787"
      [] port = 8788 -> "8788"
      [] OTHER -> "NaN"

\* findWranglerConfig(process.cwd()) when it finds a file
detectedConfig == "/cwd/wrangler.toml"

\* the path setupLocalflareDir writes the companion manifest to
shadowConfigPath(config) ==
    IF dirname(config) = "/cwd/app" THEN "/cwd/app/.localflare/wrangler.toml"
    ELSE "/cwd/.localflare/wrangler.toml"

\* rawArgs.indexOf('--'), counting from 1, 0 when absent
dashDashIndex ==
    IF \E i \in DOMAIN rawArgs : rawArgs[i] = "--"
    THEN CHOOSE i \in DOMAIN rawArgs :
             /\ rawArgs[i] = "--"
             /\ \A j \in 1..(i - 1) : rawArgs[j] # "--"
    ELSE 0

wranglerPassthrough ==
    IF dashDashIndex >= 1
    THEN SubSeq(rawArgs, dashDashIndex + 1, Len(rawArgs))
    ELSE <<>>

\* falls back to discovery when the explicit path is missing
ConfigFoundWithFallback ==
    IF cmd.configPath # NoConfigPath
    THEN host.exists \/ host.detected
    ELSE host.detected

\* whether config resolution finds a manifest
ConfigFound ==
    IF cmd.configPath # NoConfigPath THEN host.exists ELSE host.detected

resolvedConfig ==
    IF cmd.configPath # NoConfigPath THEN resolve(cmd.configPath)
    ELSE detectedConfig

persistPath ==
    IF options.persistTo # NoPersistTo THEN resolve(options.persistTo)
    ELSE joinWranglerState(dirname(resolvedConfig))

\* the primary flow's wranglerArgs
PrimaryWranglerArgs ==
    <<"wrangler", "dev",
      "-c", shadowConfigPath(resolvedConfig),
      "-c", resolvedConfig,
      "--persist-to", persistPath,
      "--port", String(options.port)>> \o wranglerPassthrough

\* the words /bin/sh makes of one argument once spawn, with shell: true, has
\* joined the arguments with spaces into one command line
ShellWords(arg) ==
    IF arg = "hello world" THEN <<"hello", "world">> ELSE <<arg>>

RECURSIVE childArgv(_)
\* the argument list the child receives from spawn('npx', args, {shell: true})
childArgv(args) ==
    IF args = <<>> THEN <<>>
    ELSE ShellWords(Head(args)) \o childArgv(Tail(args))

\* the attach flow's wranglerArgs
AttachWranglerArgs ==
    <<"wrangler", "dev",
      "-c", shadowConfigPath(resolvedConfig),
      "--persist-to", persistPath,
      "--port", String(options.port)>>

dashboardUrl ==
    [host |-> IF options.dev THEN "http://localhost:5174"
              ELSE "https://studio.localflare.dev",
     port |-> options.port]

useTui == host.isTTY /\ options.tui

\* the phrases a chunk of child output contains, for the phrases the handlers
\* look for; the empty set is output of the user's own program
Chunks == {{}, {"Ready"}, {"Listening"},
           {"has access to the following bindings", "localflare-api has access"},
           {"/__localflare/"}, {"Binding", "Resource", "Mode"}, {"ERROR"}}

\* output.includes(phrase)
includes(output, phrase) == phrase \in output

isLocalflareNoise(output) ==
    \/ includes(output, "/__localflare/")
    \/ includes(output, "localflare-api has access")
    \/ includes(output, "env.LOCALFLARE_MANIFEST")
    \/ includes(output, "env.USER_WORKER")
    \/ includes(output, "Reloading local server")
    \/ /\ includes(output, "Binding")
       /\ includes(output, "Resource")
       /\ includes(output, "Mode")

\* opens the browser whatever --no-open says
OpensBrowserAlways == TRUE

\* options.open !== false
OpensBrowser == options.open # FALSE

\* exits 1 for every failure of the child
exitCodeOneOnFailure(code) == IF code = 0 \/ code = NullCode THEN 0 ELSE 1

\* code ?? 0
exitCodeFor(code) == IF code = NullCode THEN 0 ELSE code

Event(type, output) == [type |-> type, output |-> output]

\* process.exit(1) before anything was spawned
SetupExit ==
    /\ sup' = "exited"
    /\ exitCode' = 1
    /\ lastEvent' = Event("setup-failed", {})
    /\ UNCHANGED <<cmd, options, rawArgs, host, child, childExit, spawned,
                   started, tui, tuiStarted, banners, opened, kills,
                   stopRequests, crashReported, lastSink>>
    /\ UNCHANGED cliVars

\* setupLocalflareDir, spawn, let started = false, startTui and the
\* registration of the handlers
Launch(isPrimary, wranglerArgs) ==
    /\ companion' = setupLocalflareDir(source, isPrimary)
    /\ flow' = IF isPrimary THEN "primary" ELSE "attach"
    /\ spawned' = Append(spawned, wranglerArgs)
    /\ child' = "alive"
    /\ started' = FALSE
    /\ tui' = IF isPrimary /\ useTui THEN "mounted" ELSE "none"
    /\ sup' = "supervising"
    /\ lastEvent' = Event("launch", {})
    /\ UNCHANGED <<cmd, options, rawArgs, host, exitCode, childExit,
                   tuiStarted, banners, opened, kills, stopRequests,
                   crashReported, lastSink>>
    /\ UNCHANGED <<source>>

\* the action of the default command
PrimaryAction ==
    /\ sup = "idle"
    /\ cmd.name = "primary"
    /\ IF ~ConfigFound THEN SetupExit
       ELSE IF host.setupThrows THEN SetupExit
       ELSE Launch(TRUE, PrimaryWranglerArgs)
    /\ UNCHANGED workerVars /\ UNCHANGED extVars

\* the action of the attach command
AttachAction ==
    /\ sup = "idle"
    /\ cmd.name = "attach"
    /\ IF ~ConfigFound THEN SetupExit
       ELSE IF host.setupThrows THEN SetupExit
       ELSE Launch(FALSE, AttachWranglerArgs)
    /\ UNCHANGED workerVars /\ UNCHANGED extVars

\* the readiness test of the default command's stdout handler
PrimaryReady(output) ==
    ~started /\ (includes(output, "Ready") \/ includes(output, "Listening"))

\* the readiness test of the attach command's stdout handler
AttachReady(output) ==
    /\ ~started
    /\ \/ includes(output, "Ready")
       \/ includes(output, "has access to the following bindings")

\* what a handler does when its readiness test passes: the TUI's started flag
\* or the banner, then the browser
OnReady(ready, hasTui) ==
    /\ tuiStarted' = IF ready /\ hasTui THEN tuiStarted + 1 ELSE tuiStarted
    /\ banners' = IF ready /\ ~hasTui THEN banners + 1 ELSE banners
    /\ opened' = IF ready /\ OpensBrowser THEN Append(opened, dashboardUrl)
                 ELSE opened

\* where the default command's stdout handler writes a chunk
PrimaryStdoutSink(output, nowStarted) ==
    IF tui # "none" THEN "tui"
    ELSE IF nowStarted
         THEN (IF isLocalflareNoise(output) THEN "dropped" ELSE "stdout")
         ELSE IF options.verbose THEN "stdout" ELSE "dropped"

\* a handler that takes started from the chunk at hand instead of latching it
PrimaryStdoutUnlatched(output) ==
    /\ sup = "supervising" /\ cmd.name = "primary" /\ child = "alive"
    /\ LET ready == includes(output, "Ready") \/ includes(output, "Listening")
       IN /\ started' = ready
          /\ OnReady(ready /\ ~started, tui # "none")
          /\ lastSink' = PrimaryStdoutSink(output, ready)
    /\ lastEvent' = Event("stdout", output)
    /\ UNCHANGED <<cmd, options, rawArgs, host, sup, exitCode, child,
                   childExit, spawned, tui, kills, stopRequests,
                   crashReported>>
    /\ UNCHANGED cliVars /\ UNCHANGED workerVars
    /\ UNCHANGED extVars

\* wranglerProcess.stdout.on('data') of the default command
PrimaryStdout(output) ==
    /\ sup = "supervising" /\ cmd.name = "primary" /\ child = "alive"
    /\ LET ready == PrimaryReady(output)
       IN /\ started' = (started \/ ready)
          /\ OnReady(ready, tui # "none")
          /\ lastSink' = PrimaryStdoutSink(output, started \/ ready)
    /\ lastEvent' = Event("stdout", output)
    /\ UNCHANGED <<cmd, options, rawArgs, host, sup, exitCode, child,
                   childExit, spawned, tui, kills, stopRequests,
                   crashReported>>
    /\ UNCHANGED cliVars /\ UNCHANGED workerVars
    /\ UNCHANGED extVars

\* a stderr handler that also runs the readiness test
PrimaryStderrDetectsReady(output) ==
    /\ sup = "supervising" /\ cmd.name = "primary" /\ child = "alive"
    /\ LET ready == PrimaryReady(output)
       IN /\ started' = (started \/ ready)
          /\ OnReady(ready, tui # "none")
    /\ lastSink' = IF tui # "none" THEN "tui"
                   ELSE IF options.verbose THEN "stderr" ELSE "dropped"
    /\ lastEvent' = Event("stderr", output)
    /\ UNCHANGED <<cmd, options, rawArgs, host, sup, exitCode, child,
                   childExit, spawned, tui, kills, stopRequests,
                   crashReported>>
    /\ UNCHANGED cliVars /\ UNCHANGED workerVars
    /\ UNCHANGED extVars

\* wranglerProcess.stderr.on('data') of the default command
PrimaryStderr(output) ==
    /\ sup = "supervising" /\ cmd.name = "primary" /\ child = "alive"
    /\ lastSink' = IF tui # "none" THEN "tui"
                   ELSE IF options.verbose THEN "stderr" ELSE "dropped"
    /\ lastEvent' = Event("stderr", output)
    /\ UNCHANGED <<cmd, options, rawArgs, host, sup, exitCode, child,
                   childExit, spawned, started, tui, tuiStarted, banners,
                   opened, kills, stopRequests, crashReported>>
    /\ UNCHANGED cliVars /\ UNCHANGED workerVars
    /\ UNCHANGED extVars

\* wranglerProcess.stdout.on('data') of the attach command
AttachStdout(output) ==
    /\ sup = "supervising" /\ cmd.name = "attach" /\ child = "alive"
    /\ LET ready == AttachReady(output)
       IN /\ started' = (started \/ ready)
          /\ OnReady(ready, FALSE)
    /\ lastSink' = "dropped"
    /\ lastEvent' = Event("stdout", output)
    /\ UNCHANGED <<cmd, options, rawArgs, host, sup, exitCode, child,
                   childExit, spawned, tui, kills, stopRequests,
                   crashReported>>
    /\ UNCHANGED cliVars /\ UNCHANGED workerVars
    /\ UNCHANGED extVars

\* wranglerProcess.stderr.on('data') of the attach command
AttachStderr(output) ==
    /\ sup = "supervising" /\ cmd.name = "attach" /\ child = "alive"
    /\ lastSink' = IF includes(output, "ERROR") \/ includes(output, "error")
                   THEN "stderr" ELSE "dropped"
    /\ lastEvent' = Event("stderr", output)
    /\ UNCHANGED <<cmd, options, rawArgs, host, sup, exitCode, child,
                   childExit, spawned, started, tui, tuiStarted, banners,
                   opened, kills, stopRequests, crashReported>>
    /\ UNCHANGED cliVars /\ UNCHANGED workerVars
    /\ UNCHANGED extVars

\* tui?.unmount()
unmount(t) == IF t = "none" THEN "none" ELSE "unmounted"

\* what the close handlers do: the diagnostic for a failed child, then
\* process.exit(code ?? 0)
CloseAndExit(code) ==
    /\ crashReported' = (code # 0 /\ code # NullCode)
    /\ exitCode' = exitCodeFor(code)
    /\ sup' = "exited"
    /\ child' = "closed"
    /\ childExit' = code
    /\ lastEvent' = Event("close", {})

\* a close handler that starts the child again when it failed
PrimaryCloseRestarts(code) ==
    /\ sup = "supervising" /\ cmd.name = "primary" /\ child = "alive"
    /\ tui' = unmount(tui)
    /\ IF code # 0 /\ code # NullCode
       THEN /\ spawned' = Append(spawned, PrimaryWranglerArgs)
            /\ started' = FALSE
            /\ crashReported' = TRUE
            /\ childExit' = code
            /\ lastEvent' = Event("close", {})
            /\ UNCHANGED <<exitCode, sup, child>>
       ELSE /\ CloseAndExit(code)
            /\ UNCHANGED <<spawned, started>>
    /\ UNCHANGED <<cmd, options, rawArgs, host, tuiStarted, banners, opened,
                   kills, stopRequests, lastSink>>
    /\ UNCHANGED cliVars /\ UNCHANGED workerVars
    /\ UNCHANGED extVars

\* wranglerProcess.on('close') of the default command
PrimaryClose(code) ==
    /\ sup = "supervising" /\ cmd.name = "primary" /\ child = "alive"
    /\ tui' = unmount(tui)
    /\ CloseAndExit(code)
    /\ UNCHANGED <<cmd, options, rawArgs, host, spawned, started, tuiStarted,
                   banners, opened, kills, stopRequests, lastSink>>
    /\ UNCHANGED cliVars /\ UNCHANGED workerVars
    /\ UNCHANGED extVars

\* wranglerProcess.on('close') of the attach command
AttachClose(code) ==
    /\ sup = "supervising" /\ cmd.name = "attach" /\ child = "alive"
    /\ CloseAndExit(code)
    /\ UNCHANGED <<cmd, options, rawArgs, host, spawned, started, tui,
                   tuiStarted, banners, opened, kills, stopRequests, lastSink>>
    /\ UNCHANGED cliVars /\ UNCHANGED workerVars
    /\ UNCHANGED extVars

\* the signals the commands register shutdown for
ShutdownSignals == {"SIGINT", "SIGTERM"}

\* wranglerProcess.kill(signal)
kill(signal) == kills' = Append(kills, signal)

\* a shutdown that ends the supervisor itself after signalling the child
PrimaryShutdownExits(signal) ==
    /\ sup = "supervising" /\ cmd.name = "primary" /\ child = "alive"
    /\ stopRequests < MaxStops
    /\ tui' = unmount(tui)
    /\ stopRequests' = stopRequests + 1
    /\ kill("SIGTERM")
    /\ sup' = "exited"
    /\ exitCode' = 0
    /\ lastEvent' = Event(signal, {})
    /\ UNCHANGED <<cmd, options, rawArgs, host, child, childExit, spawned,
                   started, tuiStarted, banners, opened, crashReported,
                   lastSink>>
    /\ UNCHANGED cliVars /\ UNCHANGED workerVars
    /\ UNCHANGED extVars

\* shutdown of the default command, on SIGINT or SIGTERM
PrimaryShutdown(signal) ==
    /\ sup = "supervising" /\ cmd.name = "primary" /\ child = "alive"
    /\ stopRequests < MaxStops
    /\ tui' = unmount(tui)
    /\ stopRequests' = stopRequests + 1
    /\ kill("SIGTERM")
    /\ lastEvent' = Event(signal, {})
    /\ UNCHANGED <<cmd, options, rawArgs, host, sup, exitCode, child,
                   childExit, spawned, started, tuiStarted, banners, opened,
                   crashReported, lastSink>>
    /\ UNCHANGED cliVars /\ UNCHANGED workerVars
    /\ UNCHANGED extVars

\* shutdown of the attach command, on SIGINT or SIGTERM
AttachShutdown(signal) ==
    /\ sup = "supervising" /\ cmd.name = "attach" /\ child = "alive"
    /\ stopRequests < MaxStops
    /\ stopRequests' = stopRequests + 1
    /\ kill("SIGTERM")
    /\ lastEvent' = Event(signal, {})
    /\ UNCHANGED <<cmd, options, rawArgs, host, sup, exitCode, child,
                   childExit, spawned, started, tui, tuiStarted, banners,
                   opened, crashReported, lastSink>>
    /\ UNCHANGED cliVars /\ UNCHANGED workerVars
    /\ UNCHANGED extVars

\* an onExit callback that leaves the child running
TuiExitWithoutKill ==
    /\ sup = "supervising" /\ cmd.name = "primary" /\ child = "alive"
    /\ tui = "mounted"
    /\ stopRequests < MaxStops
    /\ stopRequests' = stopRequests + 1
    /\ lastEvent' = Event("tui-exit", {})
    /\ UNCHANGED <<cmd, options, rawArgs, host, sup, exitCode, child,
                   childExit, spawned, started, tui, tuiStarted, banners,
                   opened, kills, crashReported, lastSink>>
    /\ UNCHANGED cliVars /\ UNCHANGED workerVars
    /\ UNCHANGED extVars

\* the onExit callback given to startTui, called on the TUI's exit request
TuiExit ==
    /\ sup = "supervising" /\ cmd.name = "primary" /\ child = "alive"
    /\ tui = "mounted"
    /\ stopRequests < MaxStops
    /\ stopRequests' = stopRequests + 1
    /\ kill("SIGTERM")
    /\ lastEvent' = Event("tui-exit", {})
    /\ UNCHANGED <<cmd, options, rawArgs, host, sup, exitCode, child,
                   childExit, spawned, started, tui, tuiStarted, banners,
                   opened, crashReported, lastSink>>
    /\ UNCHANGED cliVars /\ UNCHANGED workerVars
    /\ UNCHANGED extVars

\* the supervisor before a command runs
InitSupervisorIdle ==
    /\ sup = "idle"
    /\ exitCode = NoExit
    /\ child = "none"
    /\ childExit = NoExit
    /\ spawned = <<>>
    /\ started = FALSE
    /\ tui = "none"
    /\ tuiStarted = 0
    /\ banners = 0
    /\ opened = <<>>
    /\ kills = <<>>
    /\ stopRequests = 0
    /\ crashReported = FALSE
    /\ lastEvent = Event("none", {})
    /\ lastSink = "none"

\* `localflare` with no arguments, in a project directory, on a terminal
DefaultInvocation ==
    /\ cmd = [name |-> "primary", configPath |-> NoConfigPath]
    /\ options = [port |-> 8787, verbose |-> FALSE, dev |-> FALSE,
                  open |-> TRUE, tui |-> TRUE, persistTo |-> NoPersistTo]
    /\ rawArgs = <<>>
    /\ host = [exists |-> FALSE, detected |-> TRUE, setupThrows |-> FALSE,
               isTTY |-> TRUE]

-----------------------------------------------------------------------------
(* The Durable Object routes *)

\* what c.env[binding] can be: nothing, a plain variable, another kind of
\* binding, a Durable Object namespace
EnvValues == {"undefined", "string", "other-binding", "namespace"}

\* the JSON body of POST /:binding/id
IdBodies == {"invalid-json", "id", "name", "empty"}

\* what stub.fetch('https://do-stub/storage') does: throws, or answers
StubFetches == {"throws", "ok-json", "ok-not-json", "not-found", "failed"}

DORoutes == {"POST-id", "GET-storage"}

\* a call of a route, with how the runtime behaves during it
DORequests ==
    [route : DORoutes, declared : BOOLEAN, env : EnvValues, body : IdBodies,
     idFromStringThrows : BOOLEAN, idFromNameThrows : BOOLEAN,
     fetch : StubFetches]

NoDOResponse == [status |-> NoStatus, error |-> "none", hint |-> FALSE]

\* the handler threw instead of answering
Propagated == [status |-> NoStatus, error |-> "thrown", hint |-> FALSE]

\* c.json({error, hint?}, status), or c.json(data) with status 200
json(status, error, hint) == [status |-> status, error |-> error, hint |-> hint]

\* !namespace || typeof namespace !== 'object' || !('idFromName' in namespace)
NamespaceUnavailable(req) == req.env # "namespace"

\* the try block of POST /:binding/id; TRUE when it throws
IdThrows(req) ==
    CASE req.body = "invalid-json" -> TRUE
      [] req.body = "id" -> req.idFromStringThrows
      [] req.body = "name" -> req.idFromNameThrows
      [] OTHER -> FALSE

\* app.post('/:binding/id')
PostIdResponse(req) ==
    IF ~req.declared
    THEN json(404, "Durable Object binding not found", FALSE)
    ELSE IF NamespaceUnavailable(req)
    THEN json(404, "Durable Object namespace not available", FALSE)
    ELSE IF IdThrows(req) THEN json(500, "String(error)", FALSE)
    ELSE json(200, "none", FALSE)

\* resolving the id in the storage route: idFromString, and idFromName when
\* that throws; TRUE when both throw
ResolveThrows(req) == req.idFromStringThrows /\ req.idFromNameThrows

\* the storage route without its outer try/catch
StorageResponseNoCatch(req) ==
    IF NamespaceUnavailable(req)
    THEN json(404, "Durable Object namespace not available", FALSE)
    ELSE IF ResolveThrows(req) \/ req.fetch \in {"throws", "ok-not-json"}
    THEN Propagated
    ELSE IF req.fetch = "ok-json" THEN json(200, "none", FALSE)
    ELSE json(501, "Storage inspection not available", TRUE)

\* app.get('/:binding/:instanceId/storage')
StorageResponse(req) ==
    IF NamespaceUnavailable(req)
    THEN json(404, "Durable Object namespace not available", FALSE)
    ELSE IF ResolveThrows(req) \/ req.fetch \in {"throws", "ok-not-json"}
    THEN json(500, "String(error)", TRUE)
    ELSE IF req.fetch = "ok-json" THEN json(200, "none", FALSE)
    ELSE json(501, "Storage inspection not available", TRUE)

\* a call of POST /:binding/id
PostId ==
    /\ doRequest.route = "POST-id"
    /\ doResponse = NoDOResponse
    /\ doResponse' = PostIdResponse(doRequest)
    /\ UNCHANGED <<doRequest>> /\ UNCHANGED anVars /\ UNCHANGED uiVars
    /\ UNCHANGED cliVars /\ UNCHANGED workerVars /\ UNCHANGED supVars

\* a call of GET /:binding/:instanceId/storage
GetStorage ==
    /\ doRequest.route = "GET-storage"
    /\ doResponse = NoDOResponse
    /\ doResponse' = StorageResponse(doRequest)
    /\ UNCHANGED <<doRequest>> /\ UNCHANGED anVars /\ UNCHANGED uiVars
    /\ UNCHANGED cliVars /\ UNCHANGED workerVars /\ UNCHANGED supVars

\* no Durable Object route has been called
InitDOIdle ==
    /\ doRequest = [route |-> "POST-id", declared |-> FALSE,
                    env |-> "undefined", body |-> "empty",
                    idFromStringThrows |-> FALSE, idFromNameThrows |-> FALSE,
                    fetch |-> "throws"]
    /\ doResponse = NoDOResponse

-----------------------------------------------------------------------------
(* The analytics routes *)

\* a header or environment value: absent, empty, or set
CredentialValues(origin) == {"undefined", "", origin}

\* JavaScript truthiness of a string | undefined | null
Truthy(value) == value \notin {"undefined", "null", ""}

AnalyticsRoutes == {"health", "datasets", "schema", "query"}

\* what the outbound fetch to the Analytics Engine does
AnalyticsFetches == {"ok", "not-ok", "throws"}

\* a call of a route, with the credentials around it and the runtime's
\* behaviour during it
AnalyticsRequests ==
    [route : AnalyticsRoutes,
     headerAccountId : CredentialValues("header-account"),
     headerApiToken : CredentialValues("header-token"),
     envAccountId : CredentialValues("env-account"),
     envApiToken : CredentialValues("env-token"),
     bodyIsJson : BOOLEAN,
     fetch : AnalyticsFetches]

NoAnalyticsResponse == [status |-> NoStatus, source |-> "unset"]

\* takes each credential from wherever it is set
getCredentialsMixed(req) ==
    LET accountId == IF Truthy(req.headerAccountId) THEN req.headerAccountId
                     ELSE req.envAccountId
        apiToken == IF Truthy(req.headerApiToken) THEN req.headerApiToken
                    ELSE req.envApiToken
    IN IF Truthy(accountId) /\ Truthy(apiToken)
       THEN [accountId |-> accountId, apiToken |-> apiToken,
             source |-> IF Truthy(req.headerAccountId) THEN "headers"
                        ELSE "env"]
       ELSE [accountId |-> "null", apiToken |-> "null", source |-> "none"]

\* getCredentials(c): the header pair when both headers are set, else the
\* environment pair when both are set, else null
getCredentials(req) ==
    IF Truthy(req.headerAccountId) /\ Truthy(req.headerApiToken)
    THEN [accountId |-> req.headerAccountId, apiToken |-> req.headerApiToken,
          source |-> "headers"]
    ELSE IF Truthy(req.envAccountId) /\ Truthy(req.envApiToken)
    THEN [accountId |-> req.envAccountId, apiToken |-> req.envApiToken,
          source |-> "env"]
    ELSE [accountId |-> "null", apiToken |-> "null", source |-> "none"]

\* the status a route answers with when the upstream reply is not OK
NotOkStatus(route) == IF route = "datasets" THEN 200 ELSE 502

\* app.get('/health')
AnalyticsHealth ==
    /\ anRequest.route = "health"
    /\ anResponse = NoAnalyticsResponse
    /\ anResponse' = [status |-> 200, source |-> getCredentials(anRequest).source]
    /\ UNCHANGED <<anRequest, outbound>>
    /\ UNCHANGED doVars /\ UNCHANGED uiVars
    /\ UNCHANGED cliVars /\ UNCHANGED workerVars /\ UNCHANGED supVars

\* app.get('/datasets'), app.get('/datasets/:datasetId/schema') and
\* app.post('/query')
AnalyticsQuery ==
    /\ anRequest.route # "health"
    /\ anResponse = NoAnalyticsResponse
    /\ LET creds == getCredentials(anRequest)
       IN IF ~Truthy(creds.accountId) \/ ~Truthy(creds.apiToken)
          THEN /\ anResponse' = [status |-> 400, source |-> creds.source]
               /\ UNCHANGED outbound
          ELSE IF anRequest.route = "query" /\ ~anRequest.bodyIsJson
          THEN /\ anResponse' = [status |-> 500, source |-> creds.source]
               /\ UNCHANGED outbound
          ELSE /\ outbound' = Append(outbound, [accountId |-> creds.accountId,
                                                apiToken |-> creds.apiToken])
               /\ anResponse' =
                      [status |-> CASE anRequest.fetch = "throws" -> 500
                                    [] anRequest.fetch = "not-ok" ->
                                           NotOkStatus(anRequest.route)
                                    [] OTHER -> 200,
                       source |-> creds.source]
    /\ UNCHANGED <<anRequest>> /\ UNCHANGED doVars /\ UNCHANGED uiVars
    /\ UNCHANGED cliVars /\ UNCHANGED workerVars /\ UNCHANGED supVars

\* no analytics route has been called
InitAnalyticsIdle ==
    /\ anRequest = [route |-> "health", headerAccountId |-> "undefined",
                    headerApiToken |-> "undefined",
                    envAccountId |-> "undefined", envApiToken |-> "undefined",
                    bodyIsJson |-> TRUE, fetch |-> "ok"]
    /\ anResponse = NoAnalyticsResponse
    /\ outbound = <<>>

-----------------------------------------------------------------------------
(* The dashboard's pagination hook *)

PageSizes == 1..MaxPageSize

RowCounts == 0..MaxRows

\* Math.ceil(a / b) for a >= 0, b >= 1
ceil(a, b) == (a + b - 1) \div b

min(a, b) == IF a <= b THEN a ELSE b

max(a, b) == IF a >= b THEN a ELSE b

\* a field left out of the updates argument of updatePagination: undefined
Undefined == -1

\* useState's initial value
InitialPagination(initialPageSize) ==
    [pageIndex |-> 0, pageSize |-> initialPageSize, totalRows |-> 0,
     totalPages |-> 0]

\* updatePagination({totalRows, pageSize}), either field possibly left out
updatePagination(totalRows, pageSize) ==
    /\ totalRows # Undefined \/ pageSize # Undefined
    /\ LET next == [pagination EXCEPT
                       !.totalRows = IF totalRows # Undefined THEN totalRows
                                     ELSE @,
                       !.pageSize = IF pageSize # Undefined THEN pageSize
                                    ELSE @]
       IN pagination' = [next EXCEPT
                            !.totalPages = ceil(next.totalRows, next.pageSize)]
    /\ UNCHANGED historyVars /\ UNCHANGED tileVars
    /\ UNCHANGED doVars /\ UNCHANGED anVars
    /\ UNCHANGED cliVars /\ UNCHANGED workerVars /\ UNCHANGED supVars

goToPage(pageIndex) ==
    /\ pagination' = [pagination EXCEPT
                         !.pageIndex = max(0, min(pageIndex,
                                                  pagination.totalPages - 1))]
    /\ UNCHANGED historyVars /\ UNCHANGED tileVars
    /\ UNCHANGED doVars /\ UNCHANGED anVars
    /\ UNCHANGED cliVars /\ UNCHANGED workerVars /\ UNCHANGED supVars

nextPage ==
    /\ pagination' = [pagination EXCEPT
                         !.pageIndex = min(pagination.pageIndex + 1,
                                           pagination.totalPages - 1)]
    /\ UNCHANGED historyVars /\ UNCHANGED tileVars
    /\ UNCHANGED doVars /\ UNCHANGED anVars
    /\ UNCHANGED cliVars /\ UNCHANGED workerVars /\ UNCHANGED supVars

prevPage ==
    /\ pagination' = [pagination EXCEPT
                         !.pageIndex = max(pagination.pageIndex - 1, 0)]
    /\ UNCHANGED historyVars /\ UNCHANGED tileVars
    /\ UNCHANGED doVars /\ UNCHANGED anVars
    /\ UNCHANGED cliVars /\ UNCHANGED workerVars /\ UNCHANGED supVars

setPageSize(pageSize) ==
    /\ pagination' = [pagination EXCEPT
                         !.pageSize = pageSize,
                         !.pageIndex = 0,
                         !.totalPages = ceil(pagination.totalRows, pageSize)]
    /\ UNCHANGED historyVars /\ UNCHANGED tileVars
    /\ UNCHANGED doVars /\ UNCHANGED anVars
    /\ UNCHANGED cliVars /\ UNCHANGED workerVars /\ UNCHANGED supVars

-----------------------------------------------------------------------------
(* The dashboard's query history hook *)

\* the maxEntries argument of useQueryHistory
maxEntries == MaxHistory

\* localStorage holds nothing under STORAGE_KEY
Absent == [present |-> FALSE, value |-> <<>>]

\* localStorage.setItem(STORAGE_KEY, JSON.stringify(list))
Stored(list) == [present |-> TRUE, value |-> list]

\* useState's initializer: stored ? JSON.parse(stored) : []
Parsed(item) == IF item.present THEN item.value ELSE <<>>

\* [first, ...list].slice(0, n)
PrependSlice(first, list, n) ==
    LET all == <<first>> \o list
    IN IF Len(all) <= n THEN all ELSE SubSeq(all, 1, n)

\* prev.filter(e => e.id !== id)
WithoutId(list, id) == SelectSeq(list, LAMBDA e : e.id # id)

HistoryOp(op, threw) == [op |-> op, threw |-> threw]

\* an addEntry that puts the new entry after the older ones
addEntryOldestFirst(storageThrows) ==
    /\ nextEntryId <= MaxAdds
    /\ \E d \in 0..1 :
        /\ clock' = clock + d
        /\ LET newEntry == [id |-> nextEntryId, timestamp |-> clock']
               all == Append(entries, newEntry)
               next == IF Len(all) <= maxEntries THEN all
                       ELSE SubSeq(all, 2, Len(all))
           IN /\ entries' = next
              /\ stored' = IF storageThrows THEN stored ELSE Stored(next)
    /\ nextEntryId' = nextEntryId + 1
    /\ historyOp' = HistoryOp("addEntry", storageThrows)
    /\ UNCHANGED <<pagination>> /\ UNCHANGED tileVars
    /\ UNCHANGED doVars /\ UNCHANGED anVars
    /\ UNCHANGED cliVars /\ UNCHANGED workerVars /\ UNCHANGED supVars

\* addEntry(entry); storageThrows: localStorage.setItem throws
addEntry(storageThrows) ==
    /\ nextEntryId <= MaxAdds
    /\ \E d \in 0..1 :
        /\ clock' = clock + d
        /\ LET newEntry == [id |-> nextEntryId, timestamp |-> clock']
               next == PrependSlice(newEntry, entries, maxEntries)
           IN /\ entries' = next
              /\ stored' = IF storageThrows THEN stored ELSE Stored(next)
    /\ nextEntryId' = nextEntryId + 1
    /\ historyOp' = HistoryOp("addEntry", storageThrows)
    /\ UNCHANGED <<pagination>> /\ UNCHANGED tileVars
    /\ UNCHANGED doVars /\ UNCHANGED anVars
    /\ UNCHANGED cliVars /\ UNCHANGED workerVars /\ UNCHANGED supVars

\* clearHistory(); storageThrows: localStorage.removeItem throws
clearHistory(storageThrows) ==
    /\ entries' = <<>>
    /\ stored' = IF storageThrows THEN stored ELSE Absent
    /\ historyOp' = HistoryOp("clearHistory", storageThrows)
    /\ UNCHANGED <<pagination, nextEntryId, clock>> /\ UNCHANGED tileVars
    /\ UNCHANGED doVars /\ UNCHANGED anVars
    /\ UNCHANGED cliVars /\ UNCHANGED workerVars /\ UNCHANGED supVars

\* removeEntry(id); storageThrows: localStorage.setItem throws
removeEntry(id, storageThrows) ==
    /\ LET next == WithoutId(entries, id)
       IN /\ entries' = next
          /\ stored' = IF storageThrows THEN stored ELSE Stored(next)
    /\ historyOp' = HistoryOp("removeEntry", storageThrows)
    /\ UNCHANGED <<pagination, nextEntryId, clock>> /\ UNCHANGED tileVars
    /\ UNCHANGED doVars /\ UNCHANGED anVars
    /\ UNCHANGED cliVars /\ UNCHANGED workerVars /\ UNCHANGED supVars

\* the history hook first rendered over an empty localStorage
InitHistoryIdle ==
    /\ stored = Absent
    /\ entries = Parsed(stored)
    /\ nextEntryId = 1
    /\ clock = 0
    /\ historyOp = HistoryOp("none", FALSE)

-----------------------------------------------------------------------------
(* The analytics tile: TileContainer's fetchData *)

\* error is null
NoError == 0

\* the fetches whose awaited query has not settled
InFlight == {f \in 1..Len(fetches) : fetches[f].state = "inFlight"}

\* the ways the awaited apiClient.executeQuery settles
Settlements == {"ok", "error"}

\* fetchData() up to its await: the effect runs it when filterValues or the
\* query change (changed), handleRefresh and the refresh interval run it
\* with the same ones
fetchData(changed) ==
    /\ Len(fetches) < MaxFetches
    /\ filterValues' = IF changed THEN filterValues + 1 ELSE filterValues
    /\ tile' = [tile EXCEPT !.isLoading = TRUE, !.error = NoError]
    /\ fetches' = Append(fetches,
                         [filters |-> filterValues', state |-> "inFlight"])
    /\ UNCHANGED <<pagination>> /\ UNCHANGED historyVars
    /\ UNCHANGED doVars /\ UNCHANGED anVars
    /\ UNCHANGED cliVars /\ UNCHANGED workerVars /\ UNCHANGED supVars

\* fetchData() after its await, for the fetch started f-th: setData on a
\* result, setError on a throw, and setIsLoading(false) in finally
fetchSettled(f, settlement) ==
    /\ f \in InFlight
    /\ tile' = IF settlement = "ok"
               THEN [tile EXCEPT !.data = f, !.isLoading = FALSE]
               ELSE [tile EXCEPT !.error = f, !.isLoading = FALSE]
    /\ fetches' = [fetches EXCEPT ![f].state = settlement]
    /\ UNCHANGED <<pagination, filterValues>> /\ UNCHANGED historyVars
    /\ UNCHANGED doVars /\ UNCHANGED anVars
    /\ UNCHANGED cliVars /\ UNCHANGED workerVars /\ UNCHANGED supVars

\* the tile before its first effect runs
InitTileIdle ==
    /\ tile = [data |-> 0, error |-> NoError, isLoading |-> TRUE]
    /\ filterValues = 0
    /\ fetches = <<>>

\* the dashboard's hooks as first rendered
InitUIIdle ==
    /\ pagination = InitialPagination(MaxPageSize)
    /\ InitHistoryIdle
    /\ InitTileIdle

\* no route outside the proxy handler has been called, no hook used
InitExtIdle ==
    /\ InitDOIdle
    /\ InitAnalyticsIdle
    /\ InitUIIdle

-----------------------------------------------------------------------------
(* Specifications *)

\* the CLI's setup, over every bounded source manifest
InitSynth ==
    /\ source \in ResourceManifests
    /\ companion = NoManifest
    /\ flow = "none"
    /\ userWorker = FALSE
    /\ InitWorker
    /\ inbound = [r \in Requests |-> AppRequest]
    /\ DefaultInvocation
    /\ InitSupervisorIdle
    /\ InitExtIdle

NextSynth ==
    \/ PrimaryCommand
    \/ AttachCommand

SpecSynth == InitSynth /\ [][NextSynth]_vars

\* the sidecar worker serving overlapping requests, started from either flow
Init ==
    /\ source = [name |-> "user-worker",
                 bindings |-> <<[kind |-> "storage-db", bindingName |-> "DB",
                                 resourceIdentifier |-> "abc-123"]>>]
    /\ flow \in {"primary", "attach"}
    /\ companion = setupLocalflareDir(source, flow = "primary")
    /\ userWorker = HasServiceReference(companion)
    /\ InitWorker
    /\ inbound = [r \in Requests |-> AppRequest]
    /\ DefaultInvocation
    /\ InitSupervisorIdle
    /\ InitExtIdle

Next ==
    \/ \E r \in Requests : ProxyStart(r)
    \/ \E r \in Requests : ProxyNotBound(r)
    \/ \E r \in Requests : ForwardResolve(r)
    \/ \E r \in Requests : ProxyReturn(r)
    \/ \E r \in Requests : ForwardThrow(r)
    \/ CompleteAgain

Spec == Init /\ [][Next]_vars

\* the sidecar worker routing requests inside and outside the reserved prefix
InitRoute ==
    /\ source = [name |-> "user-worker",
                 bindings |-> <<[kind |-> "storage-db", bindingName |-> "DB",
                                 resourceIdentifier |-> "abc-123"]>>]
    /\ flow \in {"primary", "attach"}
    /\ companion = setupLocalflareDir(source, flow = "primary")
    /\ userWorker = HasServiceReference(companion)
    /\ InitWorker
    /\ inbound \in [Requests -> Inbounds]
    /\ DefaultInvocation
    /\ InitSupervisorIdle
    /\ InitExtIdle

NextRoute ==
    \/ \E r \in Requests : HealthCheck(r)
    \/ \E r \in Requests : ProxyStart(r)
    \/ \E r \in Requests : ProxyNotBound(r)
    \/ \E r \in Requests : ForwardResolve(r)
    \/ \E r \in Requests : ProxyReturn(r)
    \/ \E r \in Requests : ForwardThrow(r)

SpecRoute == InitRoute /\ [][NextRoute]_vars

FixedSource ==
    [name |-> "user-worker",
     bindings |-> <<[kind |-> "storage-db", bindingName |-> "DB",
                     resourceIdentifier |-> "abc-123"]>>]

\* the supervisor, over every combination of command, options and machine
InitSupervisor ==
    /\ source = FixedSource
    /\ companion = NoManifest
    /\ flow = "none"
    /\ userWorker = FALSE
    /\ InitWorker
    /\ inbound = [r \in Requests |-> AppRequest]
    /\ cmd \in [name : {"primary", "attach"}, configPath : ConfigPaths]
    /\ options \in [port : Ports, verbose : BOOLEAN, dev : BOOLEAN,
                     open : BOOLEAN, tui : BOOLEAN, persistTo : {NoPersistTo}]
    /\ cmd.name = "attach" => ~options.verbose /\ options.tui
    /\ rawArgs = <<"--", "--env", "staging">>
    /\ host \in [exists : BOOLEAN, detected : BOOLEAN, setupThrows : BOOLEAN,
                  isTTY : BOOLEAN]
    /\ cmd.configPath = NoConfigPath => ~host.exists
    /\ InitSupervisorIdle
    /\ InitExtIdle

NextSupervisor ==
    \/ PrimaryAction
    \/ AttachAction
    \/ \E output \in Chunks : PrimaryStdout(output)
    \/ \E output \in Chunks : PrimaryStderr(output)
    \/ \E output \in Chunks : AttachStdout(output)
    \/ \E output \in Chunks : AttachStderr(output)
    \/ \E code \in ChildExitCodes : PrimaryClose(code)
    \/ \E code \in ChildExitCodes : AttachClose(code)
    \/ \E signal \in ShutdownSignals : PrimaryShutdown(signal)
    \/ \E signal \in ShutdownSignals : AttachShutdown(signal)
    \/ TuiExit

SpecSupervisor == InitSupervisor /\ [][NextSupervisor]_vars

\* the Durable Object routes, over every request and runtime behaviour
InitDO ==
    /\ source = FixedSource
    /\ companion = NoManifest
    /\ flow = "none"
    /\ userWorker = FALSE
    /\ InitWorker
    /\ inbound = [r \in Requests |-> AppRequest]
    /\ DefaultInvocation
    /\ InitSupervisorIdle
    /\ doRequest \in DORequests
    /\ doRequest.env = "namespace" => doRequest.declared
    /\ doResponse = NoDOResponse
    /\ InitAnalyticsIdle
    /\ InitUIIdle

NextDO ==
    \/ PostId
    \/ GetStorage

SpecDO == InitDO /\ [][NextDO]_vars

\* the analytics routes, over every request and set of credentials
InitAnalytics ==
    /\ source = FixedSource
    /\ companion = NoManifest
    /\ flow = "none"
    /\ userWorker = FALSE
    /\ InitWorker
    /\ inbound = [r \in Requests |-> AppRequest]
    /\ DefaultInvocation
    /\ InitSupervisorIdle
    /\ InitDOIdle
    /\ anRequest \in AnalyticsRequests
    /\ anResponse = NoAnalyticsResponse
    /\ outbound = <<>>
    /\ InitUIIdle

NextAnalytics ==
    \/ AnalyticsHealth
    \/ AnalyticsQuery

SpecAnalytics == InitAnalytics /\ [][NextAnalytics]_vars

\* the pagination hook under every sequence of its operations
InitPagination ==
    /\ source = FixedSource
    /\ companion = NoManifest
    /\ flow = "none"
    /\ userWorker = FALSE
    /\ InitWorker
    /\ inbound = [r \in Requests |-> AppRequest]
    /\ DefaultInvocation
    /\ InitSupervisorIdle
    /\ InitDOIdle
    /\ InitAnalyticsIdle
    /\ \E initialPageSize \in PageSizes :
           pagination = InitialPagination(initialPageSize)
    /\ InitHistoryIdle
    /\ InitTileIdle

NextPagination ==
    \/ \E totalRows \in RowCounts \cup {Undefined},
          pageSize \in PageSizes \cup {Undefined} :
            updatePagination(totalRows, pageSize)
    \/ \E pageIndex \in (0 - 1)..MaxRows : goToPage(pageIndex)
    \/ nextPage
    \/ prevPage
    \/ \E pageSize \in PageSizes : setPageSize(pageSize)

SpecPagination == InitPagination /\ [][NextPagination]_vars

\* the query history hook under every sequence of its operations, with
\* localStorage failing or not
InitHistory ==
    /\ source = FixedSource
    /\ companion = NoManifest
    /\ flow = "none"
    /\ userWorker = FALSE
    /\ InitWorker
    /\ inbound = [r \in Requests |-> AppRequest]
    /\ DefaultInvocation
    /\ InitSupervisorIdle
    /\ InitDOIdle
    /\ InitAnalyticsIdle
    /\ pagination = InitialPagination(MaxPageSize)
    /\ InitHistoryIdle
    /\ InitTileIdle

NextHistory ==
    \/ \E storageThrows \in BOOLEAN : addEntry(storageThrows)
    \/ \E storageThrows \in BOOLEAN : clearHistory(storageThrows)
    \/ \E id \in 1..MaxAdds, storageThrows \in BOOLEAN :
            removeEntry(id, storageThrows)

SpecHistory == InitHistory /\ [][NextHistory]_vars

\* one tile under every interleaving of fetch starts and settlements
InitTile ==
    /\ source = FixedSource
    /\ companion = NoManifest
    /\ flow = "none"
    /\ userWorker = FALSE
    /\ InitWorker
    /\ inbound = [r \in Requests |-> AppRequest]
    /\ DefaultInvocation
    /\ InitSupervisorIdle
    /\ InitDOIdle
    /\ InitAnalyticsIdle
    /\ pagination = InitialPagination(MaxPageSize)
    /\ InitHistoryIdle
    /\ InitTileIdle

NextTile ==
    \/ \E changed \in BOOLEAN : fetchData(changed)
    \/ \E f \in 1..MaxFetches, settlement \in Settlements :
            fetchSettled(f, settlement)

SpecTile == InitTile /\ [][NextTile]_vars

\* the command line, over every bounded argument list
CommandLineWords == {"--", "--env", "staging", "hello world"}

CommandLines ==
    UNION {[1..n -> CommandLineWords] : n \in 0..MaxArgs}

InitArgs ==
    /\ source = FixedSource
    /\ companion = NoManifest
    /\ flow = "none"
    /\ userWorker = FALSE
    /\ InitWorker
    /\ inbound = [r \in Requests |-> AppRequest]
    /\ cmd \in [name : {"primary", "attach"}, configPath : ConfigPaths]
    /\ options \in [port : Ports, verbose : {FALSE}, dev : {FALSE},
                     open : {TRUE}, tui : {TRUE}, persistTo : PersistTos]
    /\ rawArgs \in CommandLines
    /\ host = [exists |-> TRUE, detected |-> TRUE, setupThrows |-> FALSE,
               isTTY |-> TRUE]
    /\ InitSupervisorIdle
    /\ InitExtIdle

NextArgs ==
    \/ PrimaryAction
    \/ AttachAction

SpecArgs == InitArgs /\ [][NextArgs]_vars


-----------------------------------------------------------------------------
(* Properties of the companion manifest (checked under SpecSynth) *)

\* how many declarations of manifest m equal declaration d
Occurrences(m, d) ==
    Cardinality({j \in DOMAIN m.bindings : m.bindings[j] = d})

ServiceReferences(m) ==
    {j \in DOMAIN m.bindings : m.bindings[j].kind = "service-reference"}

\* C1: identifier sharing.  Once either command has synthesized the companion
\* manifest, every non-variable declaration of the source manifest occurs in it
\* exactly once with the same bindingName, kind and resourceIdentifier.
C1_IdentifierSharing ==
    flow # "none" =>
        \A i \in DOMAIN source.bindings :
            NonVariable(source.bindings[i]) =>
                Occurrences(companion, source.bindings[i]) = 1

\* the attach flow has copied two non-variable declarations that share a
\* bindingName across kinds
C1_Witness ==
    /\ flow = "attach"
    /\ \E i, j \in DOMAIN source.bindings :
        /\ i # j
        /\ NonVariable(source.bindings[i]) /\ NonVariable(source.bindings[j])
        /\ source.bindings[i].bindingName = source.bindings[j].bindingName
        /\ Occurrences(companion, source.bindings[i]) = 1

C3_ServiceReferenceByFlow ==
    /\ flow = "primary" =>
        /\ Cardinality(ServiceReferences(companion)) = 1
        /\ \A j \in ServiceReferences(companion) :
                companion.bindings[j] = ServiceReference(source)
    /\ flow = "attach" => ServiceReferences(companion) = {}

\* the attach flow has produced a non-empty manifest without a service reference
C3_Witness ==
    /\ flow = "attach"
    /\ companion.bindings # <<>>
    /\ ServiceReferences(companion) = {}

-----------------------------------------------------------------------------
(* Properties of the sidecar worker (checked under Spec) *)

\* the last n elements of sequence s
LastN(s, n) == IF Len(s) <= n THEN s ELSE SubSeq(s, Len(s) - n + 1, Len(s))

StoredIds == [i \in DOMAIN requestStore |-> requestStore[i].id]

\* C5: capacity bound with FIFO eviction.  Neither store ever holds more than
\* its capacity, and each holds exactly the most recently inserted entries, in
\* insertion order: after N+k insertions the N newest remain.
C5_CapacityFifo ==
    /\ Len(requestStore) <= MaxExchanges
    /\ Len(logStore) <= MaxLogEntries
    /\ StoredIds = LastN(issued, MaxExchanges)
    /\ logStore = LastN(logged, MaxLogEntries)

\* both stores have evicted
C5_Witness ==
    /\ Len(issued) > MaxExchanges
    /\ Len(logged) > MaxLogEntries
    /\ Len(requestStore) = MaxExchanges
    /\ Len(logStore) = MaxLogEntries

\* C6: at-most-once completion.  Every stored exchange that shows a completion
\* shows the status and completedAt written by the first completion of its id.
C6_AtMostOnceCompletion ==
    \A i \in DOMAIN requestStore :
        requestStore[i].completedAt # NoTime =>
            firstCompletion[requestStore[i].id] =
                [status |-> requestStore[i].status,
                 completedAt |-> requestStore[i].completedAt]

\* a stored, completed exchange has received a second completion call carrying
\* another status or another time
C6_Witness ==
    \E i \in DOMAIN requestStore :
        /\ requestStore[i].completedAt # NoTime
        /\ requestStore[i].id = conflicting

\* C7: ordering.  getExchanges() is in non-decreasing startedAt order.
C7_StartedAtOrder ==
    \A i, j \in DOMAIN getExchanges :
        i < j => getExchanges[i].startedAt <= getExchanges[j].startedAt

\* after an eviction, a later-started exchange was completed before an
\* earlier-started one
C7_Witness ==
    /\ Len(issued) > MaxExchanges
    /\ \E i, j \in DOMAIN getExchanges :
        /\ i < j
        /\ getExchanges[i].startedAt < getExchanges[j].startedAt
        /\ getExchanges[j].completedAt # NoTime
        /\ getExchanges[j].completedAt < getExchanges[i].completedAt

Started(r) == pc[r] # "idle" /\ userWorker

\* C8: every request whose forward has begun has had startExchange run first,
\* and the correlation ids of any two such requests differ.
C8_DistinctIdsBeforeForward ==
    /\ \A r \in Requests :
        Started(r) =>
            /\ requestId[r] # NoId
            /\ \E k \in DOMAIN issued : issued[k] = requestId[r]
            /\ Len(trace[r]) >= 2
            /\ trace[r][1] = [op |-> "startExchange", id |-> requestId[r]]
            /\ trace[r][2] = [op |-> "forward", id |-> NoId]
    /\ \A r, s \in Requests :
        (Started(r) /\ Started(s) /\ r # s) => requestId[r] # requestId[s]

\* every request is in flight at once and none has been answered
C8_Witness ==
    /\ \A r \in Requests : pc[r] = "forwarding"
    /\ Cardinality({requestId[r] : r \in Requests}) = NumRequests

\* C9: a request whose forward resolved was handled by startExchange, forward,
\* completeExchange with the same correlation id, return, in that order, and the
\* caller got the user process's response.
C9_ProxyRoundTrip ==
    \A r \in Requests :
        (pc[r] = "done" /\ userResponse[r] # NoResponse) =>
            /\ trace[r] = <<[op |-> "startExchange", id |-> requestId[r]],
                            [op |-> "forward", id |-> NoId],
                            [op |-> "completeExchange", id |-> requestId[r]],
                            [op |-> "return", id |-> NoId]>>
            /\ returned[r] = userResponse[r]

\* an earlier request got the user process's own 500 back after a later
\* request had started
C9_Witness ==
    \E r, s \in Requests :
        /\ r < s
        /\ pc[r] = "done"
        /\ returned[r] = [status |-> 500, body |-> "user-error"]
        /\ pc[s] = "forwarding"
        /\ startTime[s] < firstCompletion[requestId[r]].completedAt

Threw(r) == pc[r] = "done" /\ userWorker /\ userResponse[r] = NoResponse

ErrorEntriesFor(id) ==
    {k \in DOMAIN logged : logged[k].level = "error" /\ logged[k].context = id}

\* C10: a request whose forward threw was answered with the 500 response, not
\* re-thrown, and caused exactly one error-level log entry, tagged with its
\* correlation id; no other request caused an error entry.
C10_ForwardFailure ==
    /\ \A r \in Requests :
        Threw(r) =>
            /\ returned[r] = WorkerErrorResponse
            /\ Cardinality(ErrorEntriesFor(requestId[r])) = 1
            /\ trace[r] = <<[op |-> "startExchange", id |-> requestId[r]],
                            [op |-> "forward", id |-> NoId],
                            [op |-> "log", id |-> requestId[r]]>>
    /\ \A k \in DOMAIN logged :
        logged[k].level = "error" =>
            \E r \in Requests : Threw(r) /\ requestId[r] = logged[k].context

\* after a failed forward was logged, a request that arrived later was served
\* with the user process's response
C10_Witness ==
    \E r, s \in Requests :
        /\ Threw(r)
        /\ returned[r] = WorkerErrorResponse
        /\ pc[s] = "done"
        /\ returned[s] \in UserResponses
        /\ \E k \in ErrorEntriesFor(requestId[r]) :
                logged[k].timestamp < startTime[s]

\* C11: with no user process bound, every request the catch-all has answered
\* got the 404 with its explanation, and no exchange was recorded, no error
\* entry was logged and no handler threw.
C11_NotBoundIs404 ==
    ~userWorker =>
        /\ \A r \in Requests :
            pc[r] = "done" =>
                /\ returned[r] = NotBoundResponse
                /\ requestId[r] = NoId
                /\ trace[r] = <<>>
        /\ requestStore = <<>>
        /\ issued = <<>>
        /\ \A k \in DOMAIN logged : logged[k].level # "error"

\* every request of an attach-flow sidecar has been answered
C11_Witness ==
    /\ ~userWorker
    /\ \A r \in Requests : pc[r] = "done" /\ returned[r].status = 404

\* C12: a request under the reserved prefix is never forwarded to the user
\* process and never recorded in the Traffic Capture Store.
C12_ReservedPrefixNeverProxied ==
    \A r \in Requests :
        HasReservedPrefix(inbound[r]) =>
            /\ requestId[r] = NoId
            /\ trace[r] = <<>>

-----------------------------------------------------------------------------
(* The supervisor's state machine *)

\* the state of section 4.3 the supervisor is in: Stopping once a stop was
\* requested of a live child, Crashed when the child closed with a nonzero code
\* without a stop having been requested
SupState ==
    IF child = "none" THEN "Idle"
    ELSE IF child = "alive"
         THEN (IF stopRequests > 0 THEN "Stopping"
               ELSE IF started THEN "Running" ELSE "Launching")
         ELSE IF stopRequests = 0 /\ childExit # 0 /\ childExit # NullCode
              THEN "Crashed" ELSE "Stopped"

DiagramTransitions ==
    {<<"Idle", "Launching">>, <<"Launching", "Running">>,
     <<"Running", "Stopping">>, <<"Stopping", "Stopped">>,
     <<"Running", "Crashed">>}

BeforeReadinessTransitions ==
    {<<"Launching", "Stopping">>, <<"Launching", "Crashed">>,
     <<"Launching", "Stopped">>}

\* C13 as stated: every transition the supervisor takes is one of
\* Idle -> Launching -> Running -> {Stopping -> Stopped | Crashed}, so Stopping
\* and Crashed are entered only from Running
C13_OnlyDiagramTransitions ==
    [][SupState' # SupState =>
           <<SupState, SupState'>> \in DiagramTransitions]_vars

\* C13, amended: every transition the supervisor takes is one of the diagram's,
\* or leaves Launching for Stopping, Crashed or Stopped when the stop request or
\* the child's exit arrives before the readiness signal, or leaves Running for
\* Stopped when the child ends by itself with code 0 or by a signal
C13_Transitions ==
    [][SupState' # SupState =>
           <<SupState, SupState'>> \in
               DiagramTransitions \cup BeforeReadinessTransitions
                   \cup {<<"Running", "Stopped">>}]_vars

\* the child failed before any readiness signal: Crashed entered from Launching
C13_Witness ==
    /\ SupState = "Crashed"
    /\ ~started
    /\ lastEvent.type = "close"

-----------------------------------------------------------------------------
(* Readiness *)

\* the readiness phrases each command recognizes
RecognizedPhrases ==
    IF cmd.name = "primary" THEN {"Ready", "Listening"}
    ELSE {"Ready", "has access to the following bindings"}

\* the number of times the run was announced as started
Announcements == tuiStarted + banners

\* C14: started turns true only in the step that handles a chunk of the child's
\* standard output containing a recognized readiness phrase, never on stderr
\* output, never back to false, and the running banner / TUI started flag is set
\* in that step only, hence at most once per run
C14_ReadinessOnlyFromStdout ==
    [][/\ started' # started =>
              /\ started'
              /\ lastEvent'.type = "stdout"
              /\ lastEvent'.output \cap RecognizedPhrases # {}
       /\ Announcements' # Announcements =>
              /\ ~started /\ started'
              /\ Announcements = 0 /\ Announcements' = 1
       /\ (~started /\ started') => Announcements' = 1]_vars

\* the run has started, was announced once, and a readiness phrase on stderr
\* has been handled since
C14_Witness ==
    /\ started
    /\ Announcements = 1
    /\ lastEvent = Event("stderr", {"Ready"})

-----------------------------------------------------------------------------
(* The browser *)

-----------------------------------------------------------------------------
(* The runtime invocation *)

CompanionPaths ==
    {"/cwd/.localflare/wrangler.toml", "/cwd/app/.localflare/wrangler.toml"}

SourcePaths == {"/cwd/wrangler.toml", "/cwd/app/wrangler.toml"}

\* the command-line arguments that followed the first '--'
ArgsAfterDashes ==
    IF \A i \in DOMAIN rawArgs : rawArgs[i] # "--" THEN <<>>
    ELSE LET first == CHOOSE i \in DOMAIN rawArgs :
                          /\ rawArgs[i] = "--"
                          /\ \A j \in DOMAIN rawArgs : rawArgs[j] = "--" => i <= j
         IN [k \in 1..(Len(rawArgs) - first) |-> rawArgs[first + k]]

\* the positions at which an argument list attaches a manifest
Attachments(args) == {i \in DOMAIN args : args[i] = "-c"}

\* the supervisor's own part of an invocation: manifests, persistence
\* directory, port
OwnOptions(args, isPrimary) ==
    IF isPrimary
    THEN /\ Len(args) >= 10
         /\ args[3] = "-c" /\ args[4] \in CompanionPaths
         /\ args[5] = "-c" /\ args[6] \in SourcePaths
         /\ args[7] = "--persist-to" /\ args[8] = persistPath
         /\ args[9] = "--port" /\ args[10] = String(options.port)
    ELSE /\ Len(args) >= 8
         /\ args[3] = "-c" /\ args[4] \in CompanionPaths
         /\ args[5] = "--persist-to" /\ args[6] = persistPath
         /\ args[7] = "--port" /\ args[8] = String(options.port)

\* C16: the child is invoked with the companion manifest first and, in the
\* primary flow, the source manifest second, then the persistence directory and
\* the port, then every argument that followed '--', verbatim and in order; in
\* the attach flow the companion manifest is the only manifest attached
C16_InvocationVerbatim ==
    \A k \in DOMAIN spawned :
        LET received == childArgv(spawned[k])
        IN IF cmd.name = "primary"
           THEN /\ OwnOptions(received, TRUE)
                /\ SubSeq(received, 11, Len(received)) = ArgsAfterDashes
           ELSE /\ OwnOptions(received, FALSE)
                /\ Attachments(received) = {3}

-----------------------------------------------------------------------------
(* Exit codes *)

\* C17: once the supervisor has exited, its exit code is the child's exit code
\* if a child was spawned, whether or not a stop had been requested (0 when the
\* child was ended by a signal and so has no exit code), and 1 if setup failed
\* before any child was spawned
C17_ExitCodeMirrorsChild ==
    sup = "exited" =>
        IF spawned = <<>> THEN exitCode = 1
        ELSE /\ childExit \in ChildExitCodes
             /\ childExit # NullCode => exitCode = childExit
             /\ childExit = NullCode => exitCode = 0

\* the child exited with code 2 after a stop had been requested, and the
\* supervisor exited with 2
C17_Witness ==
    /\ sup = "exited"
    /\ stopRequests > 0
    /\ childExit = 2
    /\ exitCode = 2

-----------------------------------------------------------------------------
(* Setup errors *)

\* the run's setup cannot succeed: the explicit manifest path does not exist,
\* or discovery finds no manifest, or writing the companion manifest fails
SetupFails ==
    \/ cmd.configPath # NoConfigPath /\ ~host.exists
    \/ cmd.configPath = NoConfigPath /\ ~host.detected
    \/ host.setupThrows

\* C18: when setup fails (explicit manifest path missing, even if discovery
\* would find one; no manifest discovered; companion manifest not written), no
\* child is ever spawned, the supervisor's only step is to exit with code 1,
\* and it takes no step after that
C18_SetupErrorsFatal ==
    /\ [](SetupFails =>
              /\ spawned = <<>>
              /\ child = "none"
              /\ flow = "none"
              /\ sup \in {"idle", "exited"}
              /\ sup = "exited" => exitCode = 1)
    /\ [][sup # "exited"]_vars

\* an explicit path that does not exist, in a directory where discovery would
\* have found a manifest: exited with 1
C18_Witness ==
    /\ cmd.configPath # NoConfigPath
    /\ ~host.exists
    /\ host.detected
    /\ ~host.setupThrows
    /\ sup = "exited"
    /\ exitCode = 1

-----------------------------------------------------------------------------
(* One child per run *)

\* C19: a run spawns at most one child, exactly one once its setup has
\* succeeded, and when that child has exited, with whatever code, the
\* supervisor has exited too without spawning another
C19_OneChildPerRun ==
    /\ Len(spawned) <= 1
    /\ child # "none" <=> Len(spawned) = 1
    /\ (~SetupFails /\ sup # "idle") => Len(spawned) = 1
    /\ child = "closed" => sup = "exited"

\* the only child failed with code 1 and the supervisor exited
C19_Witness ==
    /\ child = "closed"
    /\ childExit = 1
    /\ Len(spawned) = 1
    /\ sup = "exited"

-----------------------------------------------------------------------------
(* Stopping *)

StopTriggers == {"SIGINT", "SIGTERM", "tui-exit"}

\* C20: every stop trigger delivered (interrupt signal, terminate signal, TUI
\* exit request) has been answered by one SIGTERM sent to the child, a signal
\* is sent to the child only in the step that handles such a trigger, and a
\* supervisor that has exited has no terminal renderer mounted
C20_StopTerminatesChild ==
    /\ [](/\ Len(kills) = stopRequests
          /\ \A i \in DOMAIN kills : kills[i] = "SIGTERM"
          /\ SupState = "Stopping" => kills # <<>>
          /\ sup = "exited" => tui # "mounted")
    /\ [][kills' # kills =>
              /\ lastEvent'.type \in StopTriggers
              /\ Len(kills') = Len(kills) + 1]_vars

\* a TUI exit request was answered by SIGTERM while the renderer is still
\* mounted
C20_Witness ==
    /\ lastEvent.type = "tui-exit"
    /\ tui = "mounted"
    /\ kills = <<"SIGTERM">>
    /\ SupState = "Stopping"

-----------------------------------------------------------------------------
(* The crash diagnostic *)

\* C21: once the child has closed, the exit code and remediation hint have
\* been printed exactly when the supervisor is Crashed, that is when the child
\* exited with a nonzero code and no stop had been requested; a nonzero exit
\* after a stop request is Stopped and prints nothing
C21_DiagnosticOnlyWhenCrashed ==
    child = "closed" =>
        /\ crashReported <=> SupState = "Crashed"
        /\ (stopRequests > 0 /\ childExit # 0 /\ childExit # NullCode) =>
               SupState = "Stopped" /\ ~crashReported

-----------------------------------------------------------------------------
(* Console output *)

\* C22: in console mode, once the run has started, a stdout chunk matching a
\* noise pattern is dropped unless --verbose was given, in which case it is
\* written, and a chunk matching no noise pattern is always written
C22_NoiseSuppressedUnlessVerbose ==
    (/\ cmd.name = "primary"
     /\ tui = "none"
     /\ child = "alive"
     /\ started
     /\ lastEvent.type = "stdout") =>
        lastSink = IF isLocalflareNoise(lastEvent.output) /\ ~options.verbose
                   THEN "dropped" ELSE "stdout"

-----------------------------------------------------------------------------
(* Capability absence on the Durable Object routes *)

\* a failure is raised while the route resolves the id or calls the stub
DOFailureRaised ==
    IF doRequest.route = "POST-id" THEN IdThrows(doRequest)
    ELSE \/ doRequest.idFromStringThrows /\ doRequest.idFromNameThrows
         \/ doRequest.fetch = "throws"

-----------------------------------------------------------------------------
(* Exchange lifecycle *)

\* the exchange is as startExchange created it: no response-side field filled
\* and not marked as failed
Pending(exchange) == exchange = NewExchange(exchange.id, exchange.startedAt)

\* C24: once a proxied request has been answered to its caller, its exchange,
\* if still stored, is no longer as created: it was completed when the forward
\* resolved or marked error when the forward failed
C24_NoPendingAfterAnswer ==
    \A r \in Requests :
        (pc[r] = "done" /\ requestId[r] # NoId) =>
            \A i \in DOMAIN requestStore :
                requestStore[i].id = requestId[r] => ~Pending(requestStore[i])

-----------------------------------------------------------------------------
(* Eviction during a forward *)

IsStored(id) == \E i \in DOMAIN requestStore : requestStore[i].id = id

\* the requests that started strictly before the forward of r settled
StartedBeforeCompletionOf(r) ==
    {s \in Requests : /\ requestId[s] > requestId[r]
                      /\ startTime[s] < firstCompletion[requestId[r]].completedAt}

\* C25: completing an exchange that was evicted while its forward was in
\* flight leaves the store as it is (the exchange is not admitted again and no
\* other exchange changes), the store never exceeds its capacity, and the
\* caller gets the user process's response
C25_CompletionAfterEviction ==
    /\ [](/\ Len(requestStore) <= MaxExchanges
          /\ \A r \in Requests :
                 (pc[r] = "done" /\ userResponse[r] # NoResponse) =>
                     returned[r] = userResponse[r])
    /\ [][\A r \in Requests :
              (/\ pc[r] = "forwarding"
               /\ pc'[r] = "completing"
               /\ ~IsStored(requestId[r])) => requestStore' = requestStore]_vars

\* a request whose exchange was evicted by later requests before its forward
\* resolved has been answered with the user process's response
C25_Witness ==
    \E r \in Requests :
        /\ pc[r] = "done"
        /\ returned[r] \in UserResponses
        /\ ~IsStored(requestId[r])
        /\ Cardinality(StartedBeforeCompletionOf(r)) >= MaxExchanges

-----------------------------------------------------------------------------
(* The supervisor's own exit *)

\* C26: a supervisor that spawned a child exits only in the step that handles
\* the child's close event; a step that handles an interrupt or terminate
\* signal or a TUI exit request leaves the supervisor running and the child
\* alive; and when the child has closed after a stop request the supervisor
\* exits
C26_ExitOnlyOnClose ==
    /\ []((spawned # <<>> /\ sup = "exited") => child = "closed")
    /\ [][(spawned # <<>> /\ sup' # sup) =>
              /\ sup' = "exited"
              /\ lastEvent'.type = "close"]_vars
    /\ [][kills' # kills => sup' = "supervising" /\ child' = "alive"]_vars
    /\ (child = "closed" /\ stopRequests > 0) ~> (sup = "exited")

\* two stop triggers have been handled and the supervisor is still running
\* with its child alive
C26_Witness ==
    /\ stopRequests = 2
    /\ lastEvent.type \in StopTriggers
    /\ sup = "supervising"
    /\ child = "alive"

-----------------------------------------------------------------------------
(* Analytics credentials *)

HeaderPair ==
    Truthy(anRequest.headerAccountId) /\ Truthy(anRequest.headerApiToken)

EnvPair == Truthy(anRequest.envAccountId) /\ Truthy(anRequest.envApiToken)

\* C27: the credentials a route uses are the header pair when both header
\* values are present, otherwise the environment pair when both environment
\* values are present, otherwise none; every outbound request carries an
\* account id and a token of the same source; and with no complete pair the
\* datasets, schema and query routes answer 400 without any outbound request
C27_SingleCredentialSource ==
    anResponse # NoAnalyticsResponse =>
        /\ anResponse.source = IF HeaderPair THEN "headers"
                               ELSE IF EnvPair THEN "env" ELSE "none"
        /\ \A k \in DOMAIN outbound :
               IF HeaderPair
               THEN outbound[k] = [accountId |-> "header-account",
                                   apiToken |-> "header-token"]
               ELSE /\ EnvPair
                    /\ outbound[k] = [accountId |-> "env-account",
                                      apiToken |-> "env-token"]
        /\ (~HeaderPair /\ ~EnvPair /\ anRequest.route # "health") =>
               anResponse.status = 400 /\ outbound = <<>>

\* only the account id came in a header, the environment holds a full pair:
\* the outbound request carries the environment's account id and token
C27_Witness ==
    /\ Truthy(anRequest.headerAccountId)
    /\ ~Truthy(anRequest.headerApiToken)
    /\ outbound = <<[accountId |-> "env-account", apiToken |-> "env-token"]>>
    /\ anResponse.source = "env"

-----------------------------------------------------------------------------
(* Pagination *)

\* C28: after any sequence of pagination operations pageIndex lies between 0
\* and max(0, totalPages - 1), and totalPages is ceil(totalRows / pageSize)
C28_PageIndexInRange ==
    /\ 0 <= pagination.pageIndex
    /\ pagination.pageIndex <= max(0, pagination.totalPages - 1)
    /\ pagination.totalPages = ceil(pagination.totalRows, pagination.pageSize)
-----------------------------------------------------------------------------
(* C29: the query history *)

\* at most maxEntries entries are held
HistoryBounded == Len(entries) <= maxEntries

\* entries are ordered newest first: ids are handed out in the order of the
\* additions, and no entry is stamped later than one before it in the list
HistoryNewestFirst ==
    \A i \in 1..Len(entries), j \in 1..Len(entries) :
        i < j => /\ entries[i].id > entries[j].id
                 /\ entries[i].timestamp >= entries[j].timestamp

\* a step that adds to a full history keeps the newest maxEntries - 1 of the
\* old entries behind the new one, and so discards the oldest
AddDiscardsOldest ==
    (nextEntryId' # nextEntryId /\ Len(entries) = maxEntries) =>
        /\ Len(entries') = maxEntries
        /\ entries'[1].id = nextEntryId
        /\ \A i \in 2..maxEntries : entries'[i] = entries[i - 1]
        /\ \A i \in 1..maxEntries : entries'[i] # entries[maxEntries]

\* what localStorage holds reads back as the entries in memory, and the key is
\* absent after clearHistory
PersistedEqualsMemory ==
    /\ Parsed(stored) = entries
    /\ historyOp.op = "clearHistory" => ~stored.present

\* C29 as stated: after any sequence of addEntry, removeEntry and clearHistory
\* at most maxEntries entries are held, newest first, adding to a full history
\* discards the oldest, and localStorage always equals the entries in memory
\* (the key being absent after clearHistory).
C29_PersistedAlwaysEqualsMemory ==
    /\ [](HistoryBounded /\ HistoryNewestFirst /\ PersistedEqualsMemory)
    /\ [][AddDiscardsOldest]_vars

\* C29 amended: after any sequence of addEntry, removeEntry and clearHistory at
\* most maxEntries entries are held, newest first, and adding to a full
\* history discards the oldest; localStorage equals the entries in memory (the
\* key being absent after clearHistory) whenever the storage call of the last
\* operation did not throw, and keeps its previous value when it threw.
C29_PersistedUnlessStorageThrows ==
    /\ [](/\ HistoryBounded
          /\ HistoryNewestFirst
          /\ ~historyOp.threw => PersistedEqualsMemory)
    /\ [][/\ AddDiscardsOldest
          /\ historyOp'.threw => stored' = stored]_vars

\* a full history whose oldest entry was discarded by an addition that was
\* persisted, after an earlier entry was removed
C29_Witness ==
    /\ Len(entries) = maxEntries
    /\ nextEntryId > maxEntries + 1
    /\ historyOp = HistoryOp("addEntry", FALSE)
    /\ stored = Stored(entries)
    /\ entries[maxEntries].id > 1
-----------------------------------------------------------------------------
(* C30: overlapping fetches of one tile *)

\* the fetch started last
Latest == Len(fetches)

\* once every fetch has settled, the tile shows the outcome of the fetch
\* started last: its data with no error, or its error
ShowsLatestWhenSettled ==
    (InFlight = {} /\ fetches # <<>>) =>
        IF fetches[Latest].state = "ok"
        THEN tile.data = Latest /\ tile.error = NoError
        ELSE tile.error = Latest

\* isLoading is false only when no fetch is in flight
LoadingWhileInFlight == ~tile.isLoading => InFlight = {}

\* a step in which a fetch older than the latest settles leaves data and
\* error as they were
StaleResponseIgnored ==
    (\E f \in 1..Len(fetches) :
        /\ f < Latest
        /\ fetches[f].state = "inFlight"
        /\ fetches'[f].state # "inFlight") =>
        /\ tile'.data = tile.data
        /\ tile'.error = tile.error

\* C30: when filter values or the query change while an earlier fetch is in
\* flight, the tile finally displays the data of the most recently started
\* fetch, a response of an older fetch never overwrites the data or error of a
\* newer one, and isLoading is false only when no fetch is in flight.
C30_LatestFetchWins ==
    /\ [](ShowsLatestWhenSettled /\ LoadingWhileInFlight)
    /\ [][StaleResponseIgnored]_vars
====
